---- MODULE Spec2Model ----
(***************************************************************************)
(* EDI processing workflow (ccorley/edi): the EdiWorkflow state machine,   *)
(* the EdiProcessor stages and run orchestration, the CLI flow of          *)
(* process_edi and the NATS coverage-response callback of the eligibility  *)
(* check processor.                                                        *)
(***************************************************************************)
EXTENDS Integers, Sequences, FiniteSets, TLC

\* ------------------------------------------------------------------ bounds
\* the elapsed time (perf_counter_ms difference) a slow stage records; a
\* fast one records 0
MaxElapsed == 1
\* largest number of transaction models X12ModelReader yields for an input
MaxModels == 2
\* largest number of matching messages the transport delivers
MaxMatches == 2

MaxSegments == 2

MaxBuffer == 2

\* segments after the ISA segment in a 271 template
MaxTemplate == 2

\* ------------------------------------------------------------- vocabulary
None == "None"

\* EdiWorkflow.states
states ==
    {"init", "analyzed", "enriched", "validated", "translated", "transmitted",
     "completed", "cancelled", "failed"}

NonTerminal ==
    {"init", "analyzed", "enriched", "validated", "translated", "transmitted"}

\* mutant of the table: fail is also allowed from completed
transitions_failFromCompleted ==
    [analyze   |-> [source |-> {"init"}, target |-> "analyzed"],
     enrich    |-> [source |-> {"analyzed"}, target |-> "enriched"],
     validate  |-> [source |-> {"analyzed", "enriched"}, target |-> "validated"],
     translate |-> [source |-> {"analyzed", "enriched", "validated"},
                    target |-> "translated"],
     transmit  |-> [source |-> {"analyzed", "enriched", "validated", "translated"},
                    target |-> "transmitted"],
     complete  |-> [source |-> {"analyzed", "enriched", "validated", "translated",
                                "transmitted"},
                    target |-> "completed"],
     cancel    |-> [source |-> NonTerminal, target |-> "cancelled"],
     fail      |-> [source |-> NonTerminal \cup {"completed"}, target |-> "failed"]]

\* mutant of the table: fail is not allowed from init
transitions_failNotFromInit ==
    [analyze   |-> [source |-> {"init"}, target |-> "analyzed"],
     enrich    |-> [source |-> {"analyzed"}, target |-> "enriched"],
     validate  |-> [source |-> {"analyzed", "enriched"}, target |-> "validated"],
     translate |-> [source |-> {"analyzed", "enriched", "validated"},
                    target |-> "translated"],
     transmit  |-> [source |-> {"analyzed", "enriched", "validated", "translated"},
                    target |-> "transmitted"],
     complete  |-> [source |-> {"analyzed", "enriched", "validated", "translated",
                                "transmitted"},
                    target |-> "completed"],
     cancel    |-> [source |-> NonTerminal, target |-> "cancelled"],
     fail      |-> [source |-> NonTerminal \ {"init"}, target |-> "failed"]]

\* mutant of the table: transmit is allowed again from transmitted
transitions_transmitAgain ==
    [analyze   |-> [source |-> {"init"}, target |-> "analyzed"],
     enrich    |-> [source |-> {"analyzed"}, target |-> "enriched"],
     validate  |-> [source |-> {"analyzed", "enriched"}, target |-> "validated"],
     translate |-> [source |-> {"analyzed", "enriched", "validated"},
                    target |-> "translated"],
     transmit  |-> [source |-> {"analyzed", "enriched", "validated", "translated",
                                "transmitted"},
                    target |-> "transmitted"],
     complete  |-> [source |-> {"analyzed", "enriched", "validated", "translated",
                                "transmitted"},
                    target |-> "completed"],
     cancel    |-> [source |-> NonTerminal, target |-> "cancelled"],
     fail      |-> [source |-> NonTerminal, target |-> "failed"]]

\* EdiWorkflow.transitions: name -> (source states, target state)
transitions ==
    [analyze   |-> [source |-> {"init"}, target |-> "analyzed"],
     enrich    |-> [source |-> {"analyzed"}, target |-> "enriched"],
     validate  |-> [source |-> {"analyzed", "enriched"}, target |-> "validated"],
     translate |-> [source |-> {"analyzed", "enriched", "validated"},
                    target |-> "translated"],
     transmit  |-> [source |-> {"analyzed", "enriched", "validated", "translated"},
                    target |-> "transmitted"],
     complete  |-> [source |-> {"analyzed", "enriched", "validated", "translated",
                                "transmitted"},
                    target |-> "completed"],
     cancel    |-> [source |-> {"init", "analyzed", "enriched", "validated",
                                "translated", "transmitted"},
                    target |-> "cancelled"],
     fail      |-> [source |-> {"init", "analyzed", "enriched", "validated",
                                "translated", "transmitted"},
                    target |-> "failed"]]

TransitionNames == DOMAIN transitions

\* EdiWorkflow.initial_state
initial_state == "init"

\* the check xworkflows makes before it runs a @transition method
IsAvailable(t, s) == s \in transitions[t].source

\* EdiOperations: the name a transition appends to the operation log
EdiOperations ==
    [analyze |-> "ANALYZE", enrich |-> "ENRICH", validate |-> "VALIDATE",
     translate |-> "TRANSLATE", transmit |-> "TRANSMIT", complete |-> "COMPLETE",
     cancel |-> "CANCEL", fail |-> "FAIL"]

\* ---------------------------------------------------------------- faults
\* texts (a reason, a fault's message) are sequences of words
\* str(exception) of a fault: its message text
ExStr(e) == <<"str", e.type>> \o e.about

\* the error xworkflows raises for a transition not available from a state
InvalidTransitionError(t, s) ==
    [type |-> "InvalidTransitionError", about |-> <<t, s>>]

\* a fault raised by the work of a stage
StageFault(stage) == [type |-> "Fault", about |-> <<stage, "work">>]

NoExc == [type |-> "None", about |-> <<>>]

\* --------------------------------------------------------------- metrics
\* EdiProcessingMetrics.__init__: the fields, then totalTime as their sum
EdiProcessingMetrics(a, e, v, tl, tm) ==
    [analyzeTime |-> a, enrichTime |-> e, validateTime |-> v,
     translateTime |-> tl, transmitTime |-> tm,
     totalTime |-> a + e + v + tl + tm]

StageSum(m) ==
    m.analyzeTime + m.enrichTime + m.validateTime + m.translateTime + m.transmitTime

\* ------------------------------------------------------------- processor
\* transaction ids an input's models carry
TxIds == {"T1", "T2"}

\* identities an input's models carry: the subscriber's (last name, first
\* name, member id) and the payer's (name, id)
KnownSubscriber == <<"DOE", "JOHN", "11122333301">>

KnownPayer == <<"UNIFIED INSURANCE CO", "842610001">>

Subscribers == {"DOE", "ROE"} \X {"JOHN", "JANE"} \X {"11122333301", "11122333302"}

Payers == {"UNIFIED INSURANCE CO", "OTHER INSURANCE CO"} \X {"842610001", "842610002"}

\* what X12ModelReader yields for one transaction model of the input: the
\* fields translate reads from it
Model(tx, who, payer) ==
    [tx |-> tx, subscriber |-> who, insurer |-> payer,
     provider |-> <<"HAPPY DOCTORS GROUP", "1234567893">>]

\* the model of a transaction of the known subscriber with the known payer
Txn(tx) == Model(tx, KnownSubscriber, KnownPayer)

\* a model without the fields translate reads
Bad == Model("BAD", <<>>, <<>>)

RECURSIVE SeqsUpTo(_, _)
SeqsUpTo(S, n) ==
    IF n = 0 THEN {<<>>}
    ELSE LET shorter == SeqsUpTo(S, n - 1)
         IN shorter \cup {Append(q, x) : q \in {r \in shorter : Len(r) = n - 1}, x \in S}

\* input messages: whether EdiAnalyzer recognises the format, and the models
\* X12ModelReader parses from the text
\* (translate stops at the first model without the fields, so no input has
\* models after such a one)
Inputs ==
    [recognised : BOOLEAN,
     models : {m \in SeqsUpTo({Txn(tx) : tx \in TxIds} \cup {Bad}, MaxModels) :
                  \A i \in 1 .. Len(m) - 1 : m[i] # Bad}]

Classes == {"EdiProcessor", "EdiEligibilityCheckProcessor"}

\* EdiProcessor.__init__ / EdiEligibilityCheckProcessor.__init__
NewProcessor(class, input) ==
    [class |-> class,
     input_message |-> input,
     state |-> initial_state,
     meta_data |-> None,
     metrics |-> EdiProcessingMetrics(0, 0, 0, 0, 0),
     operations |-> <<>>,
     transmit_data |-> None,
     message_received |-> FALSE,
     subscriber_last |-> None,
     subscriber_first |-> None,
     subscriber_id |-> None,
     insurer_name |-> None,
     insurer_id |-> None,
     provider_name |-> None,
     provider_id |-> None,
     transaction_id |-> None]

\* what a call gives back: the processor after it, and a value or a fault
Returned(q, r) == [self |-> q, exc |-> NoExc, ret |-> r]
Raised(q, e) == [self |-> q, exc |-> e, ret |-> <<>>]

\* mutant: the log entry is appended before the legality check rejects
Rejected_appending(t, q) ==
    Raised([q EXCEPT !.operations = Append(@, EdiOperations[t])],
           InvalidTransitionError(t, q.state))

\* @transition: a call from a state outside the source states is rejected
Rejected(t, q) == Raised(q, InvalidTransitionError(t, q.state))

\* @transition: after the method has returned, the state is the target
Advance(t, q) == [q EXCEPT !.state = transitions[t].target]

\* EdiAnalyzer(input).analyze(): the metadata of a recognised input, a fault
\* for an unrecognised one
EdiAnalyzer(input) == IF input.recognised THEN "metadata" ELSE None

\* EdiProcessor.analyze
analyze(q, el) ==
    IF ~IsAvailable("analyze", q.state) THEN Rejected("analyze", q)
    ELSE IF EdiAnalyzer(q.input_message) = None THEN Raised(q, StageFault("analyze"))
    ELSE Returned(Advance("analyze",
                    [q EXCEPT !.meta_data = EdiAnalyzer(q.input_message),
                              !.metrics.analyzeTime = el,
                              !.operations = Append(@, EdiOperations.analyze)]),
                  <<>>)

\* EdiProcessor.enrich
enrich(q, el) ==
    IF ~IsAvailable("enrich", q.state) THEN Rejected("enrich", q)
    ELSE Returned(Advance("enrich",
                    [q EXCEPT !.metrics.enrichTime = el,
                              !.operations = Append(@, EdiOperations.enrich)]),
                  <<>>)

\* EdiProcessor.validate
validate(q, el) ==
    IF ~IsAvailable("validate", q.state) THEN Rejected("validate", q)
    ELSE Returned(Advance("validate",
                    [q EXCEPT !.metrics.validateTime = el,
                              !.operations = Append(@, EdiOperations.validate)]),
                  <<>>)

\* mutant: the patient is looked up by last name only
get_patient_reference_lastOnly(last, first, id) ==
    IF last = "DOE" THEN "Patient/001" ELSE None

\* _get_patient_reference: the fixture for the one known subscriber, else
\* the function ends without a return, which gives None
get_patient_reference(last, first, id) ==
    IF last = "DOE" /\ first = "JOHN" /\ id = "11122333301"
    THEN "Patient/001" ELSE None

\* _get_insurer_reference
get_insurer_reference(name, id) ==
    IF name = "UNIFIED INSURANCE CO" /\ id = "842610001"
    THEN "Organization/001" ELSE None

\* _get_coverage_reference
get_coverage_reference(last, first, id) ==
    IF last = "DOE" /\ first = "JOHN" /\ id = "11122333301"
    THEN "Coverage/9876B1" ELSE None

\* _create_request: the CoverageEligibilityRequest, of which the id and the
\* three references depend on the processor
create_request(q) ==
    [resourceType |-> "CoverageEligibilityRequest",
     id |-> q.transaction_id,
     identifier |-> q.transaction_id,
     patient |-> get_patient_reference(q.subscriber_last, q.subscriber_first,
                                       q.subscriber_id),
     provider |-> "Organization/1",
     insurer |-> get_insurer_reference(q.insurer_name, q.insurer_id),
     coverage |-> get_coverage_reference(q.subscriber_last, q.subscriber_first,
                                         q.subscriber_id)]

\* translate, the fields one model sets on the processor
SetFields(q, model) ==
    [q EXCEPT !.subscriber_last = model.subscriber[1],
              !.subscriber_first = model.subscriber[2],
              !.subscriber_id = model.subscriber[3],
              !.transaction_id = model.tx,
              !.insurer_name = model.insurer[1],
              !.insurer_id = model.insurer[2],
              !.provider_name = model.provider[1],
              !.provider_id = model.provider[2]]

\* mutant: the loop starts the log over instead of appending to it
RECURSIVE TranslateModels_resetLog(_, _, _)
TranslateModels_resetLog(q, models, el) ==
    IF models = <<>> THEN Returned(q, <<>>)
    ELSE IF Head(models) = Bad THEN Raised(q, StageFault("translate"))
    ELSE LET q1 == SetFields(q, Head(models))
         IN TranslateModels_resetLog(
                [q1 EXCEPT !.transmit_data = create_request(q1),
                           !.metrics.translateTime = el,
                           !.operations = <<EdiOperations.translate>>],
                Tail(models), el)

\* EdiEligibilityCheckProcessor.translate, the loop over the parsed models:
\* each model sets the transaction id, builds the request, records the time
\* and appends TRANSLATE; a model without the fields raises
RECURSIVE TranslateModels(_, _, _)
TranslateModels(q, models, el) ==
    IF models = <<>> THEN Returned(q, <<>>)
    ELSE IF Head(models) = Bad THEN Raised(q, StageFault("translate"))
    ELSE LET q1 == SetFields(q, Head(models))
         IN TranslateModels(
                [q1 EXCEPT !.transmit_data = create_request(q1),
                           !.metrics.translateTime = el,
                           !.operations = Append(@, EdiOperations.translate)],
                Tail(models), el)

\* the body of the translate coroutine: EdiProcessor.translate for the base
\* class, EdiEligibilityCheckProcessor.translate for the eligibility check
TranslateBody(q, el) ==
    IF q.class = "EdiProcessor"
    THEN Returned([q EXCEPT !.metrics.translateTime = el,
                            !.operations = Append(@, EdiOperations.translate)],
                  <<>>)
    ELSE TranslateModels(q, q.input_message.models, el)

\* await self.translate(): the wrapper checks the state, creates the
\* coroutine and advances the state; the body then runs without suspending
translate(q, el) ==
    IF ~IsAvailable("translate", q.state) THEN Rejected("translate", q)
    ELSE TranslateBody(Advance("translate", q), el)

\* self.transmit(): the wrapper checks the state, creates the coroutine and
\* advances the state; the body runs up to the POST and suspends there
transmit_call(q) ==
    IF ~IsAvailable("transmit", q.state) THEN Rejected("transmit", q)
    ELSE Returned(Advance("transmit", q), <<>>)

\* EdiProcessor.transmit after the POST: a fault is re-raised, a response
\* is stored, timed and logged
transmit_resume(q, el, ok) ==
    IF ~ok THEN Raised(q, StageFault("transmit"))
    ELSE Returned([q EXCEPT !.metrics.transmitTime = el,
                            !.operations = Append(@, EdiOperations.transmit)],
                  <<>>)

\* EdiProcessor._create_edi_result: EdiResult(**result_data), whose metrics
\* are a new EdiProcessingMetrics built from self.metrics.dict()
create_edi_result(q) ==
    [metadata |-> q.meta_data,
     metrics |-> EdiProcessingMetrics(q.metrics.analyzeTime, q.metrics.enrichTime,
                                      q.metrics.validateTime, q.metrics.translateTime,
                                      q.metrics.transmitTime),
     operations |-> q.operations,
     errors |-> <<>>]

\* EdiProcessor.complete
complete(q) ==
    IF ~IsAvailable("complete", q.state) THEN Rejected("complete", q)
    ELSE LET q1 == [q EXCEPT !.operations = Append(@, EdiOperations.complete)]
         IN Returned(Advance("complete", q1), <<create_edi_result(q1)>>)

\* EdiProcessor.cancel
cancel(q) ==
    IF ~IsAvailable("cancel", q.state) THEN Rejected("cancel", q)
    ELSE LET q1 == [q EXCEPT !.operations = Append(@, EdiOperations.cancel)]
         IN Returned(Advance("cancel", q1), <<create_edi_result(q1)>>)

\* mutant: the causing fault is left out of the error list
fail_errors_reasonOnly(reason, exception) == <<[msg |-> reason]>>

\* EdiProcessor.fail, the error list: the reason, then str(exception) if an
\* exception was given
fail_errors(reason, exception) ==
    IF exception # NoExc
    THEN <<[msg |-> reason], [msg |-> ExStr(exception)]>>
    ELSE <<[msg |-> reason]>>

\* mutant: the result is made before FAIL is appended
fail_logAfterResult(q, reason, exception) ==
    IF ~IsAvailable("fail", q.state) THEN Rejected("fail", q)
    ELSE LET q1 == [q EXCEPT !.operations = Append(@, EdiOperations.fail)]
             r  == [create_edi_result(q) EXCEPT
                        !.errors = fail_errors(reason, exception)]
         IN Returned(Advance("fail", q1), <<r>>)

\* EdiProcessor.fail
fail(q, reason, exception) ==
    IF ~IsAvailable("fail", q.state) THEN Rejected("fail", q)
    ELSE LET q1 == [q EXCEPT !.operations = Append(@, EdiOperations.fail)]
             r  == [create_edi_result(q1) EXCEPT
                        !.errors = fail_errors(reason, exception)]
         IN Returned(Advance("fail", q1), <<r>>)

\* ------------------------------------------------------------- correlator
\* ids an inbound message can carry: those of transactions, one of no
\* transaction, and JSON null
MsgIds == TxIds \cup {"T9", None}

\* mutant: the id check is dropped
IsMatch_always(q, id) == TRUE

\* nats_coverage_response_callback, the id check
IsMatch(q, id) == id = q.transaction_id

\* mutant: a message that arrives before the transaction id is set counts
\* as the response
callback_keepsEarly(q, id) ==
    IF q.transaction_id = None /\ id # None
    THEN [self |-> [q EXCEPT !.message_received = TRUE], did |-> "ignored"]
    ELSE IF ~IsMatch(q, id) THEN [self |-> q, did |-> "ignored"]
    ELSE IF q.transaction_id = None THEN [self |-> q, did |-> "raised"]
    ELSE [self |-> [q EXCEPT !.message_received = TRUE], did |-> "rewritten"]

\* mutant: message_received is set before the template is rewritten
callback_flagFirst(q, id) ==
    IF ~IsMatch(q, id) THEN [self |-> q, did |-> "ignored"]
    ELSE LET q1 == [q EXCEPT !.message_received = TRUE]
         IN IF q.transaction_id = None THEN [self |-> q1, did |-> "raised"]
            ELSE [self |-> q1, did |-> "rewritten"]

\* nats_coverage_response_callback: a message of another id is ignored; for a
\* matching one the 271 template is loaded and rewritten with the identity
\* fields, which fails in join() when they are still None, and then
\* message_received is set
callback(q, id) ==
    IF ~IsMatch(q, id) THEN [self |-> q, did |-> "ignored"]
    ELSE IF q.transaction_id = None THEN [self |-> q, did |-> "raised"]
    ELSE [self |-> [q EXCEPT !.message_received = TRUE], did |-> "rewritten"]

\* ------------------------------------------------------------- x12 reader
\* texts are sequences of characters
\* X12Config: offsets of the delimiters in the ISA segment, its length, and
\* the size of a buffered read
isa_element_separator == 3

isa_repetition_separator == 82

isa_segment_length == 106

isa_segment_terminator == 105

x12_reader_buffer_size == 1024000

Min(a, b) == IF a < b THEN a ELSE b

\* stream.read(n) at position pos (the number of characters already read)
Read(text, pos, n) == SubSeq(text, pos + 1, Min(pos + n, Len(text)))

\* text[offset] of Python, which counts from 0
CharAt(text, offset) == text[offset + 1]

StartsWith(text, tag) == Len(text) >= Len(tag) /\ SubSeq(text, 1, Len(tag)) = tag

\* mutant: any text that is not empty passes for X12
is_x12_data_nonEmpty(input_data) == input_data # <<>>

\* is_x12_data
is_x12_data(input_data) ==
    IF input_data # <<>> THEN StartsWith(input_data, <<"I", "S", "A">>) ELSE FALSE

\* mutant: nothing is stripped
rstrip_none(str, c) == str

\* str.rstrip(c) for one character c: all trailing c are removed
RECURSIVE rstrip(_, _)
rstrip(str, c) ==
    IF str # <<>> /\ str[Len(str)] = c THEN rstrip(SubSeq(str, 1, Len(str) - 1), c)
    ELSE str

\* str.split(c) for one character c: the pieces between the c, empty pieces
\* included; a text without c, the empty text too, is one piece
RECURSIVE split(_, _)
split(str, c) ==
    IF \A i \in DOMAIN str : str[i] # c THEN <<str>>
    ELSE LET i == CHOOSE k \in DOMAIN str :
                     str[k] = c /\ \A j \in 1 .. k - 1 : str[j] # c
         IN <<SubSeq(str, 1, i - 1)>> \o split(SubSeq(str, i + 1, Len(str)), c)

\* X12SegmentReader.__init__
X12SegmentReader(x12_input, size) ==
    [x12_input |-> x12_input,
     buffer_size |-> size,
     status |-> "new",
     element_separator |-> None,
     repetition_separator |-> None,
     segment_terminator |-> None,
     pos |-> 0,
     yielded |-> <<>>]

\* X12SegmentReader._set_delimiters: the three characters at the configured
\* offsets of the first isa_segment_length characters, assigned one after
\* the other; an offset beyond those characters is an IndexError
set_delimiters(r) ==
    LET isa_segment == Read(r.x12_input, 0, isa_segment_length)
        has(offset) == offset < Len(isa_segment)
        r1 == [r EXCEPT !.element_separator =
                            CharAt(isa_segment, isa_element_separator)]
        r2 == [r1 EXCEPT !.repetition_separator =
                            CharAt(isa_segment, isa_repetition_separator)]
        r3 == [r2 EXCEPT !.segment_terminator =
                            CharAt(isa_segment, isa_segment_terminator)]
    IN IF ~has(isa_element_separator) THEN [r EXCEPT !.status = "IndexError"]
       ELSE IF ~has(isa_repetition_separator) THEN [r1 EXCEPT !.status = "IndexError"]
       ELSE IF ~has(isa_segment_terminator) THEN [r2 EXCEPT !.status = "IndexError"]
       ELSE [r3 EXCEPT !.status = "open"]

\* X12SegmentReader.__enter__ (a file is read as the text it holds)
enter(r) ==
    IF ~is_x12_data(r.x12_input) THEN [r EXCEPT !.status = "ValueError"]
    ELSE IF Read(r.x12_input, 0, isa_segment_length) = <<>>
    THEN [r EXCEPT !.status = "ValueError"]
    ELSE set_delimiters(r)

\* mutant: a buffer is not extended to the next terminator
Extend_none(text, e, terminator) == e

\* segments(), the inner loop: the buffer that ends at character e is
\* extended by one character at a time until it ends with the terminator or
\* the stream is at its end
RECURSIVE Extend(_, _, _)
Extend(text, e, terminator) ==
    IF text[e] = terminator \/ e = Len(text) THEN e
    ELSE Extend(text, e + 1, terminator)

\* segments(), one turn of the outer loop: a buffered read, the extension,
\* and the segments of the buffer yielded in order; an empty read ends it
segments_chunk(r) ==
    LET first == Read(r.x12_input, r.pos, r.buffer_size)
    IN IF first = <<>> THEN [r EXCEPT !.status = "exhausted"]
       ELSE LET e == Extend(r.x12_input, r.pos + Len(first), r.segment_terminator)
                buffer == SubSeq(r.x12_input, r.pos + 1, e)
            IN [r EXCEPT !.pos = e,
                         !.yielded = @ \o split(rstrip(buffer, r.segment_terminator),
                                                r.segment_terminator)]

\* X12SegmentReader.elements
elements(segment, delimiter) == split(segment, delimiter)

\* the delimiters of an interchange
DelimiterSets ==
    {[element |-> "*", repetition |-> ">", terminator |-> "~"],
     [element |-> "|", repetition |-> "^", terminator |-> "!"]}

\* an ISA segment with its terminator: the tag, the delimiters d at their
\* offsets, and digits elsewhere
IsaSegment(d) ==
    [i \in 1 .. isa_segment_length |->
        CASE i <= 3 -> <<"I", "S", "A">>[i]
          [] i = isa_element_separator + 1 -> d.element
          [] i = isa_repetition_separator + 1 -> d.repetition
          [] i = isa_segment_terminator + 1 -> d.terminator
          [] OTHER -> "0"]

\* segments as lists of elements: elements that are empty, plain, or hold a
\* repetition separator
SegmentPool(d) ==
    LET plain == <<"A">>
        repeated == <<"B", d.repetition, "C">>
    IN {<<plain>>, <<<<>>>>, <<plain, <<>>>>, <<repeated, plain>>,
        <<<<>>, plain, repeated>>}

RECURSIVE join(_, _)
join(list, c) ==
    IF Len(list) = 1 THEN list[1]
    ELSE list[1] \o <<c>> \o join(Tail(list), c)

\* the text of a list of segments: the elements joined by the element
\* separator, each segment followed by the terminator
RECURSIVE Encode(_, _)
Encode(body, d) ==
    IF body = <<>> THEN <<>>
    ELSE join(body[1], d.element) \o <<d.terminator>> \o Encode(Tail(body), d)

Document(d, body) == IsaSegment(d) \o Encode(body, d)

NoEncoded == [delimiters |-> [element |-> None, repetition |-> None, terminator |-> None],
              body |-> <<>>, rest |-> <<>>, whole |-> FALSE]

\* what may follow the last terminator of a text: nothing, or the beginning
\* of a segment that was cut off
Rests(d) == {<<>>, <<"A">>, <<"C", d.element, "A">>}

\* texts that are no interchange: what is left of one when it is cut short
\* or its tag is overwritten
SampleDocument ==
    Document([element |-> "*", repetition |-> ">", terminator |-> "~"], <<<<<<"A">>>>>>)

Damaged ==
    LET cut == {SubSeq(SampleDocument, 1, n) : n \in 0 .. Len(SampleDocument)}
    IN cut \cup {[t \in DOMAIN c |-> IF t = 1 THEN "X" ELSE c[t]] : c \in cut}
           \cup {[t \in DOMAIN c |-> IF t = 3 THEN "B" ELSE c[t]] : c \in cut}

\* X12_READER_BUFFER_SIZE: small sizes, the length of the ISA segment, and
\* the default
BufferSizes == (1 .. MaxBuffer) \cup {isa_segment_length, x12_reader_buffer_size}

\* a reader after segments() has run from its first buffer to the empty read
RECURSIVE ReadThrough(_)
ReadThrough(r) ==
    IF r.status = "exhausted" THEN r ELSE ReadThrough(segments_chunk(r))

\* all that segments() yields for a reader
ReadAll(r) == ReadThrough(r).yielded

\* ------------------------------------------------------- 271 template
\* f.readlines(): the lines of a text, each with its line feed
RECURSIVE readlines(_)
readlines(text) ==
    IF text = <<>> THEN <<>>
    ELSE LET ends == {i \in DOMAIN text : text[i] = "\n"}
         IN IF ends = {} THEN <<text>>
            ELSE LET e == CHOOSE i \in ends : \A j \in ends : i <= j
                 IN <<SubSeq(text, 1, e)>> \o readlines(SubSeq(text, e + 1, Len(text)))

\* template = ",".join(f.readlines())
LoadTemplate(file) ==
    LET lines == readlines(file)
    IN IF lines = <<>> THEN <<>> ELSE join(lines, ",")

\* segments a 271 template is made of, as lists of elements: the three NM1
\* segments the callback rewrites, TRN, EB, a segment it leaves alone, and a
\* segment whose last element is empty
TemplatePool ==
    {<<<<"N", "M", "1">>, <<"I", "L">>, <<"1">>, <<"X">>, <<"Y">>, <<>>, <<>>, <<>>,
       <<"M", "I">>, <<"0">>>>,
     <<<<"N", "M", "1">>, <<"P", "R">>, <<"2">>, <<"X">>, <<>>, <<>>, <<>>, <<>>,
       <<"P", "I">>, <<"0">>>>,
     <<<<"N", "M", "1">>, <<"1", "P">>, <<"2">>, <<"X">>, <<>>, <<>>, <<>>, <<>>,
       <<"X", "X">>, <<"0">>>>,
     <<<<"T", "R", "N">>, <<"2">>, <<"0">>, <<"9">>>>,
     <<<<"E", "B">>, <<"6">>, <<>>, <<"3", "0">>>>,
     <<<<"H", "L">>, <<"1">>>>,
     <<<<"D", "T", "P">>, <<"2", "9", "1">>, <<>>>>}

\* the text of ./samples/271.x12: an ISA segment and the segments of a body,
\* on one line or with a line feed after each terminator
RECURSIVE EncodeLines(_, _, _)
EncodeLines(body, d, feed) ==
    IF body = <<>> THEN <<>>
    ELSE join(body[1], d.element) \o <<d.terminator>> \o feed
            \o EncodeLines(Tail(body), d, feed)

TemplateFile(d, body, inLines) ==
    LET feed == IF inLines THEN <<"\n">> ELSE <<>>
    IN IsaSegment(d) \o feed \o EncodeLines(body, d, feed)

\* a payload of the eligibility event: its identifier and its in-force flag
Messages == [id : MsgIds, inforce : BOOLEAN]

NoMessage == [id |-> None, inforce |-> FALSE]

\* eligibility = 6; if message["insurance"][0]["inforce"]: eligibility = 1
Eligibility(message) == IF message.inforce THEN 1 ELSE 6

\* str(eligibility)
Str(n) == IF n = 1 THEN <<"1">> ELSE <<"6">>

\* segment[0:n]
Slice(segment, n) == SubSeq(segment, 1, Min(n, Len(segment)))

\* elements[i] = value for each pair of a list of (i, value), Python's
\* indices; an index the list does not have is an IndexError
RECURSIVE Assign(_, _)
Assign(els, pairs) ==
    IF pairs = <<>> THEN [ok |-> TRUE, els |-> els]
    ELSE IF pairs[1][1] + 1 > Len(els) THEN [ok |-> FALSE, els |-> els]
    ELSE Assign([els EXCEPT ![pairs[1][1] + 1] = pairs[1][2]], Tail(pairs))

IndexError == [ok |-> FALSE, pairs |-> <<>>]

Pairs(pairs) == [ok |-> TRUE, pairs |-> pairs]

\* the values a segment's elements are set to, as (index, value) pairs;
\* elements[1] of a segment of one element is an IndexError. A field's
\* value is kept as one unit of text.
Targets(q, segment, els, eligibility) ==
    IF Slice(segment, 3) = <<"N", "M", "1">>
    THEN IF Len(els) < 2 THEN IndexError
         ELSE IF els[2] = <<"I", "L">>
              THEN Pairs(<<<<3, <<q.subscriber_last>>>>, <<4, <<q.subscriber_first>>>>,
                           <<9, <<q.subscriber_id>>>>>>)
         ELSE IF els[2] = <<"P", "R">>
              THEN Pairs(<<<<3, <<q.insurer_name>>>>, <<9, <<q.insurer_id>>>>>>)
         ELSE IF els[2] = <<"1", "P">>
              THEN Pairs(<<<<3, <<q.provider_name>>>>, <<9, <<q.provider_id>>>>>>)
         ELSE Pairs(<<>>)
    ELSE IF Slice(segment, 3) = <<"T", "R", "N">>
         THEN Pairs(<<<<2, <<q.transaction_id>>>>>>)
    ELSE IF Slice(segment, 2) = <<"E", "B">>
         THEN Pairs(<<<<1, Str(eligibility)>>>>)
    ELSE Pairs(<<>>)

NoOutput == [status |-> "none", text |-> <<>>]

\* the body of the loop over the segments once the delimiter is known: the
\* text the segment adds to output_message, or a raise (an index the
\* elements do not have, or join() of a field that is None)
RewriteSegment(q, segment, delimiter, eligibility) ==
    LET els == elements(segment, delimiter)
        targets == Targets(q, segment, els, eligibility)
        set == Assign(els, targets.pairs)
    IN IF ~targets.ok \/ ~set.ok THEN [ok |-> FALSE, text |-> <<>>]
       ELSE IF \E i \in DOMAIN set.els : set.els[i] = <<None>>
            THEN [ok |-> FALSE, text |-> <<>>]
       ELSE [ok |-> TRUE, text |-> rstrip(join(set.els, delimiter), delimiter)]

\* for segment in r.segments(): ..., over the segments the reader yields;
\* the delimiter is a text of one character, empty while it is unbound
RECURSIVE RewriteSegments(_, _, _, _, _)
RewriteSegments(q, segs, delimiter, eligibility, out) ==
    IF segs = <<>> THEN [status |-> "done", text |-> out]
    ELSE LET segment == Head(segs)
             isa == Slice(segment, 3) = <<"I", "S", "A">>
             ed == IF isa THEN SubSeq(segment, 4, Min(4, Len(segment))) ELSE delimiter
             out1 == IF isa THEN out ELSE out \o <<"~">>
         IN IF ed = <<>> THEN [status |-> "raised", text |-> out1]
            ELSE LET piece == RewriteSegment(q, segment, ed[1], eligibility)
                 IN IF ~piece.ok THEN [status |-> "raised", text |-> out1]
                    ELSE RewriteSegments(q, Tail(segs), ed, eligibility,
                                         out1 \o piece.text)

\* ------------------------------------------------------------------ state
VARIABLES
    proc,        \* the processor object
    subscribed,  \* the NATS subscription is open
    pc,          \* where the calling flow is
    driver,      \* who drives it: "api" (direct calls), "run", "cli"
    flags,       \* run's / process_edi's enrich, validate, translate, transmit
    ex,          \* the fault run's except clause has caught
    call,        \* the last call made on the processor, with its arguments
    result,      \* what the last call, run or process_edi returned
    escaped,     \* the fault the last call, run or process_edi let out
    cb,          \* what the last callback invocation did
    rewrites,    \* number of 271 texts the callback has produced
    stageRuns,   \* how often each stage's work was started
    failCalls,   \* how often run has called fail
    caught,      \* how often run's except clause was entered
    reader,      \* an X12SegmentReader: its attributes, its stream's
                 \* position and the segments it has yielded
    encoded,     \* the delimiters and segments the reader's text encodes
    message,     \* the payload the callback is given
    output_message  \* the callback's output_message, and how it ended

vars == <<proc, subscribed, pc, driver, flags, ex, call, result, escaped, cb,
          rewrites, stageRuns, failCalls, caught>>

ghost == <<stageRuns, failCalls, caught>>

x12vars == <<reader, encoded, message, output_message>>

Stages == {"analyze", "enrich", "validate", "translate", "transmit"}

Elapsed == {0, MaxElapsed}

Flags == [enrich : BOOLEAN, validate : BOOLEAN, translate : BOOLEAN, transmit : BOOLEAN]

NoFlags == [enrich |-> FALSE, validate |-> FALSE, translate |-> FALSE, transmit |-> FALSE]

NoCall == [op |-> None, reason |-> <<>>, exception |-> NoExc]

Called(op) == [op |-> op, reason |-> <<>>, exception |-> NoExc]

\* run's message for the fail it makes
RunMsg == <<"An error occurred executing the EdiProcessor workflow">>

\* points where the calling flow is not running, so that the event loop can
\* run the callback: before the flow, suspended in await client.post(...) or
\* await asyncio.sleep(2), and after run has returned to its caller (when
\* process_edi ends, the event loop of the CLI ends with it)
Suspended == {"idle", "post", "sleep", "returned"}

At == IF pc = "done" /\ driver = "run" THEN "returned" ELSE pc

Init ==
    /\ \E c \in Classes, i \in Inputs :
          \* the base class never parses its input
          /\ c = "EdiProcessor" => i.models = <<>>
          /\ proc = NewProcessor(c, i)
    /\ subscribed = FALSE
    /\ pc = "idle"
    /\ driver = "api"
    /\ flags = NoFlags
    /\ ex = NoExc
    /\ call = NoCall
    /\ result = <<>>
    /\ escaped = NoExc
    /\ cb = None
    /\ rewrites = 0
    /\ stageRuns = [s \in Stages |-> 0]
    /\ failCalls = 0
    /\ caught = 0
    /\ reader = X12SegmentReader(<<>>, x12_reader_buffer_size)
    /\ encoded = NoEncoded
    /\ message = NoMessage
    /\ output_message = NoOutput

\* the work of stage s starts when the call is legal; counted for the calls
\* run or process_edi makes, and for every transmit, whose work is the POST
Started(s) ==
    stageRuns' = IF (driver # "api" \/ s = "transmit") /\ IsAvailable(s, proc.state)
                 THEN [stageRuns EXCEPT ![s] = @ + 1]
                 ELSE stageRuns

\* how the calling flow goes on after a call that gave out: under run a
\* fault enters the except clause, under process_edi it leaves the flow, and
\* a direct caller gets the value or the fault of its call
Continue(out, nextpc) ==
    /\ proc' = out.self
    /\ CASE driver = "run" ->
              IF out.exc = NoExc
              THEN pc' = nextpc /\ UNCHANGED <<ex, caught, escaped, result>>
              ELSE /\ pc' = "except"
                   /\ ex' = out.exc
                   /\ caught' = caught + 1
                   /\ UNCHANGED <<escaped, result>>
         [] driver = "cli" ->
              IF out.exc = NoExc
              THEN pc' = nextpc /\ UNCHANGED <<ex, caught, escaped, result>>
              ELSE /\ pc' = "done"
                   /\ escaped' = out.exc
                   /\ UNCHANGED <<ex, caught, result>>
         [] OTHER ->
              /\ pc' = IF out.exc = NoExc THEN nextpc ELSE "idle"
              /\ escaped' = out.exc
              /\ result' = out.ret
              /\ UNCHANGED <<ex, caught>>

\* ----------------------------------------------- direct calls of a client
ApiAnalyze ==
    /\ pc = "idle" /\ driver = "api"
    /\ \E el \in Elapsed : Continue(analyze(proc, el), "idle")
    /\ Started("analyze")
    /\ call' = Called("analyze")
    /\ UNCHANGED <<subscribed, driver, flags, cb, rewrites, failCalls>>
    /\ UNCHANGED x12vars

ApiEnrich ==
    /\ pc = "idle" /\ driver = "api"
    /\ \E el \in Elapsed : Continue(enrich(proc, el), "idle")
    /\ Started("enrich")
    /\ call' = Called("enrich")
    /\ UNCHANGED <<subscribed, driver, flags, cb, rewrites, failCalls>>
    /\ UNCHANGED x12vars

ApiValidate ==
    /\ pc = "idle" /\ driver = "api"
    /\ \E el \in Elapsed : Continue(validate(proc, el), "idle")
    /\ Started("validate")
    /\ call' = Called("validate")
    /\ UNCHANGED <<subscribed, driver, flags, cb, rewrites, failCalls>>
    /\ UNCHANGED x12vars

ApiTranslate ==
    /\ pc = "idle" /\ driver = "api"
    /\ \E el \in Elapsed : Continue(translate(proc, el), "idle")
    /\ Started("translate")
    /\ call' = Called("translate")
    /\ UNCHANGED <<subscribed, driver, flags, cb, rewrites, failCalls>>
    /\ UNCHANGED x12vars

ApiTransmit ==
    /\ pc = "idle" /\ driver = "api"
    /\ Continue(transmit_call(proc), "post")
    /\ Started("transmit")
    /\ call' = Called("transmit")
    /\ UNCHANGED <<subscribed, driver, flags, cb, rewrites, failCalls>>
    /\ UNCHANGED x12vars

ApiComplete ==
    /\ pc = "idle" /\ driver = "api"
    /\ Continue(complete(proc), "idle")
    /\ call' = Called("complete")
    /\ UNCHANGED <<subscribed, driver, flags, cb, rewrites, failCalls, stageRuns>>
    /\ UNCHANGED x12vars

ApiCancel ==
    /\ pc = "idle" /\ driver = "api"
    /\ Continue(cancel(proc), "idle")
    /\ call' = Called("cancel")
    /\ UNCHANGED <<subscribed, driver, flags, cb, rewrites, failCalls, stageRuns>>
    /\ UNCHANGED x12vars

\* reasons and causing faults a client passes to fail
Reasons == {<<"boom">>, <<"halt">>}

Causes == {NoExc, StageFault("transmit")}

ApiFail ==
    /\ pc = "idle" /\ driver = "api"
    /\ \E reason \in Reasons, exception \in Causes :
          /\ Continue(fail(proc, reason, exception), "idle")
          /\ call' = [op |-> "fail", reason |-> reason, exception |-> exception]
    /\ UNCHANGED <<subscribed, driver, flags, cb, rewrites, failCalls, stageRuns>>
    /\ UNCHANGED x12vars

\* start_nats_coverage_eligibility_subscriber, called before the flow starts
Subscribe ==
    /\ pc = "idle"
    /\ proc.class = "EdiEligibilityCheckProcessor"
    /\ ~subscribed
    /\ subscribed' = TRUE
    /\ UNCHANGED <<proc, pc, driver, flags, ex, call, result, escaped, cb, rewrites,
                   ghost>>
    /\ UNCHANGED x12vars

\* the transport dispatches nats_coverage_response_callback with a message
\* carrying id
DeliverMsg(id) ==
    /\ subscribed
    /\ At \in Suspended
    /\ LET out == callback(proc, id)
       IN /\ out.did = "rewritten" => rewrites < MaxMatches
          /\ proc' = out.self
          /\ cb' = out.did
          /\ rewrites' = IF out.did = "rewritten" THEN rewrites + 1 ELSE rewrites
    /\ UNCHANGED <<subscribed, pc, driver, flags, ex, call, result, escaped, ghost>>
    /\ UNCHANGED x12vars

Deliver == \E id \in MsgIds : DeliverMsg(id)

\* the same delivery with the payload kept in view: the callback's msg
\* argument is a local of that one invocation
Receive(m) ==
    /\ subscribed
    /\ At \in Suspended
    /\ LET out == callback(proc, m.id)
       IN /\ out.did = "rewritten" => rewrites < MaxMatches
          /\ proc' = out.self
          /\ cb' = out.did
          /\ rewrites' = IF out.did = "rewritten" THEN rewrites + 1 ELSE rewrites
    /\ message' = m
    /\ UNCHANGED <<subscribed, pc, driver, flags, ex, call, result, escaped, ghost>>
    /\ UNCHANGED <<reader, encoded, output_message>>

\* the POST of transmit returns a response or raises
PostReturn ==
    /\ pc = "post"
    /\ \E el \in Elapsed, ok \in BOOLEAN :
          Continue(transmit_resume(proc, el, ok), IF driver = "api" THEN "idle" ELSE "wait")
    /\ UNCHANGED <<subscribed, driver, flags, call, cb, rewrites, failCalls, stageRuns>>
    /\ UNCHANGED x12vars

\* -------------------------------------------- EdiProcessor.run, process_edi
\* a flow starts: its flags are bound and its counters start at zero
Begin(d, f) ==
    /\ driver' = d
    /\ flags' = f
    /\ pc' = "analyze"
    /\ ex' = NoExc
    /\ call' = NoCall
    /\ result' = <<>>
    /\ escaped' = NoExc
    /\ stageRuns' = [s \in Stages |-> 0]
    /\ failCalls' = 0
    /\ caught' = 0

\* run(enrich, validate, translate, transmit) is called
RunStart ==
    /\ pc = "idle"
    /\ \E f \in Flags : Begin("run", f)
    /\ UNCHANGED <<proc, subscribed, cb, rewrites>>
    /\ UNCHANGED x12vars

\* process_edi is called: it makes the processor and subscribes
CliStart ==
    /\ pc = "idle" /\ driver = "api" /\ call = NoCall /\ ~subscribed
    /\ proc.class = "EdiEligibilityCheckProcessor"
    /\ \E f \in Flags : Begin("cli", f)
    /\ subscribed' = TRUE
    /\ UNCHANGED <<proc, cb, rewrites>>
    /\ UNCHANGED x12vars

StepAnalyze ==
    /\ pc = "analyze"
    /\ \E el \in Elapsed : Continue(analyze(proc, el), "enrich")
    /\ Started("analyze")
    /\ UNCHANGED <<subscribed, driver, flags, call, cb, rewrites, failCalls>>
    /\ UNCHANGED x12vars

StepEnrich ==
    /\ pc = "enrich"
    /\ IF flags.enrich
       THEN /\ \E el \in Elapsed : Continue(enrich(proc, el), "validate")
            /\ Started("enrich")
       ELSE /\ pc' = "validate"
            /\ UNCHANGED <<proc, ex, caught, escaped, result, stageRuns>>
    /\ UNCHANGED <<subscribed, driver, flags, call, cb, rewrites, failCalls>>
    /\ UNCHANGED x12vars

StepValidate ==
    /\ pc = "validate"
    /\ IF flags.validate
       THEN /\ \E el \in Elapsed : Continue(validate(proc, el), "translate")
            /\ Started("validate")
       ELSE /\ pc' = "translate"
            /\ UNCHANGED <<proc, ex, caught, escaped, result, stageRuns>>
    /\ UNCHANGED <<subscribed, driver, flags, call, cb, rewrites, failCalls>>
    /\ UNCHANGED x12vars

StepTranslate ==
    /\ pc = "translate"
    /\ IF flags.translate
       THEN /\ \E el \in Elapsed : Continue(translate(proc, el), "transmit")
            /\ Started("translate")
       ELSE /\ pc' = "transmit"
            /\ UNCHANGED <<proc, ex, caught, escaped, result, stageRuns>>
    /\ UNCHANGED <<subscribed, driver, flags, call, cb, rewrites, failCalls>>
    /\ UNCHANGED x12vars

StepTransmit ==
    /\ pc = "transmit"
    /\ IF flags.transmit
       THEN /\ Continue(transmit_call(proc), "post")
            /\ Started("transmit")
       ELSE /\ pc' = "wait"
            /\ UNCHANGED <<proc, ex, caught, escaped, result, stageRuns>>
    /\ UNCHANGED <<subscribed, driver, flags, call, cb, rewrites, failCalls>>
    /\ UNCHANGED x12vars

\* mutant: the loop is left without the flag being set
Poll_noWait ==
    /\ pc = "wait"
    /\ pc' = IF driver = "cli" THEN "stop" ELSE "complete"
    /\ UNCHANGED <<proc, subscribed, driver, flags, ex, call, result, escaped, cb,
                   rewrites, ghost>>
    /\ UNCHANGED x12vars

\* mutant: the loop sleeps again whatever the flag says
Poll_alwaysSleep ==
    /\ pc = "wait"
    /\ pc' = "sleep"
    /\ UNCHANGED <<proc, subscribed, driver, flags, ex, call, result, escaped, cb,
                   rewrites, ghost>>
    /\ UNCHANGED x12vars

\* while not message_received: the flag is read; if it is unset the flow
\* suspends in asyncio.sleep(2)
Poll ==
    /\ pc = "wait"
    /\ pc' = IF ~proc.message_received THEN "sleep"
             ELSE IF driver = "cli" THEN "stop" ELSE "complete"
    /\ UNCHANGED <<proc, subscribed, driver, flags, ex, call, result, escaped, cb,
                   rewrites, ghost>>
    /\ UNCHANGED x12vars

\* asyncio.sleep(2) returns
Wake ==
    /\ pc = "sleep"
    /\ pc' = "wait"
    /\ UNCHANGED <<proc, subscribed, driver, flags, ex, call, result, escaped, cb,
                   rewrites, ghost>>
    /\ UNCHANGED x12vars

\* process_edi: stop_nats_coverage_eligibility_subscriber
CliStop ==
    /\ pc = "stop"
    /\ subscribed' = FALSE
    /\ pc' = "complete"
    /\ UNCHANGED <<proc, driver, flags, ex, call, result, escaped, cb, rewrites, ghost>>
    /\ UNCHANGED x12vars

\* return self.complete() / result = processor.complete()
StepComplete ==
    /\ pc = "complete"
    /\ LET out == complete(proc)
       IN /\ proc' = out.self
          /\ IF out.exc = NoExc
             THEN pc' = "done" /\ result' = out.ret /\ UNCHANGED <<ex, caught, escaped>>
             ELSE IF driver = "run"
             THEN /\ pc' = "except"
                  /\ ex' = out.exc
                  /\ caught' = caught + 1
                  /\ UNCHANGED <<result, escaped>>
             ELSE pc' = "done" /\ escaped' = out.exc /\ UNCHANGED <<ex, caught, result>>
    /\ UNCHANGED <<subscribed, driver, flags, call, cb, rewrites, failCalls, stageRuns>>
    /\ UNCHANGED x12vars

\* run's except clause: return self.fail(msg, ex)
Except ==
    /\ pc = "except"
    /\ LET out == fail(proc, RunMsg, ex)
       IN /\ proc' = out.self
          /\ result' = out.ret
          /\ escaped' = out.exc
    /\ failCalls' = failCalls + 1
    /\ pc' = "done"
    /\ UNCHANGED <<subscribed, driver, flags, ex, call, cb, rewrites, stageRuns, caught>>
    /\ UNCHANGED x12vars

\* ----------------------------------------------- other users of the object
\* another task calls cancel on the processor while run is suspended
OtherCancel ==
    /\ driver = "run"
    /\ pc \in {"post", "sleep"}
    /\ proc' = cancel(proc).self
    /\ UNCHANGED <<subscribed, pc, driver, flags, ex, call, result, escaped, cb,
                   rewrites, ghost>>
    /\ UNCHANGED x12vars

\* run is called again on a processor whose run has returned
RunAgain ==
    /\ pc = "done" /\ driver = "run"
    /\ \E f \in Flags : Begin("run", f)
    /\ UNCHANGED <<proc, subscribed, cb, rewrites>>
    /\ UNCHANGED x12vars

\* --------------------------------------------------------- specifications
FlowNext ==
    \/ StepAnalyze \/ StepEnrich \/ StepValidate \/ StepTranslate \/ StepTransmit
    \/ PostReturn \/ Poll \/ Wake \/ CliStop \/ StepComplete \/ Except

\* run or process_edi on a new processor, with the callback
Next ==
    \/ Subscribe \/ RunStart \/ CliStart \/ Deliver \/ FlowNext

Spec == Init /\ [][Next]_vars

\* the event loop runs a flow that can take a step: a coroutine that is
\* ready is resumed, asyncio.sleep(2) returns, the POST returns or raises
SpecLive == Init /\ [][Next]_vars /\ WF_vars(FlowNext)

\* payloads delivered to a waiting flow; the in-force flag only selects the
\* code the rewrite writes
Payloads == {m \in Messages : m.inforce}

\* run or process_edi with the payload of the last delivery in view
SpecWait ==
    Init /\ [][Subscribe \/ RunStart \/ CliStart \/ FlowNext
                 \/ \E m \in Payloads : Receive(m)]_<<vars, message>>

ApiNext ==
    \/ ApiAnalyze \/ ApiEnrich \/ ApiValidate \/ ApiTranslate \/ ApiTransmit
    \/ ApiComplete \/ ApiCancel \/ ApiFail

\* a client calling the transitions directly, in any order
SpecApi == Init /\ [][ApiNext \/ PostReturn]_vars

\* run called in any state a client has brought the processor to, called
\* again after it returned, and with another task cancelling during a wait
SpecMix ==
    Init /\ [][ApiAnalyze \/ ApiCancel \/ Subscribe \/ Deliver \/ RunStart \/ CliStart
               \/ FlowNext \/ OtherCancel \/ RunAgain]_vars

\* inputs of one transaction, of any subscriber with any payer
IdentityInputs ==
    [recognised : {TRUE},
     models : {<<Model(tx, who, payer)>> :
                  tx \in TxIds, who \in Subscribers, payer \in Payers}]

InitIdentity ==
    /\ \E i \in IdentityInputs : proc = NewProcessor("EdiEligibilityCheckProcessor", i)
    /\ subscribed = FALSE
    /\ pc = "idle"
    /\ driver = "api"
    /\ flags = NoFlags
    /\ ex = NoExc
    /\ call = NoCall
    /\ result = <<>>
    /\ escaped = NoExc
    /\ cb = None
    /\ rewrites = 0
    /\ stageRuns = [s \in Stages |-> 0]
    /\ failCalls = 0
    /\ caught = 0
    /\ reader = X12SegmentReader(<<>>, x12_reader_buffer_size)
    /\ encoded = NoEncoded
    /\ message = NoMessage
    /\ output_message = NoOutput

\* an eligibility check of one transaction taken up to the POST, for every
\* identity
SpecIdentity ==
    InitIdentity /\ [][ApiAnalyze \/ ApiTranslate \/ ApiTransmit \/ PostReturn]_vars

\* ------------------------------------------------------ the reader alone
\* with X12SegmentReader(x12_input) as r: __enter__
Enter ==
    /\ reader.status = "new"
    /\ reader' = enter(reader)
    /\ UNCHANGED <<encoded, message, output_message, vars>>

\* for segment in r.segments(): one turn of the generator's outer loop
Segments ==
    /\ reader.status = "open"
    /\ reader' = segments_chunk(reader)
    /\ UNCHANGED <<encoded, message, output_message, vars>>

InitReader ==
    /\ \/ \E d \in DelimiterSets, size \in BufferSizes :
            \E body \in SeqsUpTo(SegmentPool(d), MaxSegments), rest \in Rests(d) :
               /\ reader = X12SegmentReader(Document(d, body) \o rest, size)
               /\ encoded = [delimiters |-> d, body |-> body, rest |-> rest,
                             whole |-> rest = <<>>]
       \/ \E text \in Damaged :
            /\ reader = X12SegmentReader(text, x12_reader_buffer_size)
            /\ encoded = NoEncoded
    /\ message = NoMessage
    /\ output_message = NoOutput
    /\ proc = NewProcessor("EdiProcessor", [recognised |-> TRUE, models |-> <<>>])
    /\ subscribed = FALSE
    /\ pc = "idle"
    /\ driver = "api"
    /\ flags = NoFlags
    /\ ex = NoExc
    /\ call = NoCall
    /\ result = <<>>
    /\ escaped = NoExc
    /\ cb = None
    /\ rewrites = 0
    /\ stageRuns = [s \in Stages |-> 0]
    /\ failCalls = 0
    /\ caught = 0

\* a reader opened on a text and read to its end
SpecReader == InitReader /\ [][Enter \/ Segments]_x12vars

\* nats_coverage_response_callback on a given template file: the id check,
\* the eligibility code, the template loaded, read through an
\* X12SegmentReader and rewritten, and message_received set at the end
coverage_response(q, msg, file) ==
    IF ~IsMatch(q, msg.id)
    THEN [self |-> q, did |-> "ignored", out |-> NoOutput,
          r |-> X12SegmentReader(<<>>, x12_reader_buffer_size)]
    ELSE LET r0 == enter(X12SegmentReader(LoadTemplate(file), x12_reader_buffer_size))
             r == IF r0.status = "open" THEN ReadThrough(r0) ELSE r0
         IN IF r0.status # "open"
            THEN [self |-> q, did |-> "raised", r |-> r,
                  out |-> [status |-> "raised", text |-> <<>>]]
            ELSE LET out == RewriteSegments(q, r.yielded, <<>>, Eligibility(msg), <<>>)
                 IN IF out.status = "raised"
                    THEN [self |-> q, did |-> "raised", r |-> r, out |-> out]
                    ELSE [self |-> [q EXCEPT !.message_received = TRUE],
                          did |-> "rewritten", r |-> r, out |-> out]

\* the file ./samples/271.x12 as the state describes it
File == TemplateFile(encoded.delimiters, encoded.body, encoded.inLines)

\* the callback runs on the message; it has no await and runs as one step
Rewrite ==
    /\ output_message.status = "none"
    /\ cb = None
    /\ LET o == coverage_response(proc, message, File)
       IN /\ proc' = o.self
          /\ cb' = o.did
          /\ rewrites' = IF o.did = "rewritten" THEN rewrites + 1 ELSE rewrites
          /\ output_message' = o.out
          /\ reader' = o.r
    /\ UNCHANGED <<encoded, message, subscribed, pc, driver, flags, ex, call, result,
                   escaped, ghost>>

\* a processor whose translate has run on an input of one transaction, or
\* one fresh from its constructor
Translated(i) ==
    translate(analyze(NewProcessor("EdiEligibilityCheckProcessor", i), 0).self, 0).self

RewriteInputs ==
    [recognised : {TRUE},
     models : {<<Model(tx, <<"DOE", "JOHN", "11122333301">>, payer)>> :
                  tx \in TxIds, payer \in {KnownPayer, <<"OTHER INSURANCE CO", "842610002">>}}]

InitRewrite ==
    /\ \E i \in RewriteInputs :
          proc \in {Translated(i), NewProcessor("EdiEligibilityCheckProcessor", i)}
    /\ \E d \in DelimiterSets, inLines \in BOOLEAN :
          \E body \in SeqsUpTo(TemplatePool, MaxTemplate) :
             encoded = [delimiters |-> d, body |-> body, rest |-> <<>>,
                        whole |-> TRUE, inLines |-> inLines]
    /\ message \in {m \in Messages : m.id \in {proc.transaction_id, "T9"}}
    /\ output_message = NoOutput
    /\ reader = X12SegmentReader(<<>>, x12_reader_buffer_size)
    /\ subscribed = TRUE
    /\ pc = "idle"
    /\ driver = "api"
    /\ flags = NoFlags
    /\ ex = NoExc
    /\ call = NoCall
    /\ result = <<>>
    /\ escaped = NoExc
    /\ cb = None
    /\ rewrites = 0
    /\ stageRuns = [s \in Stages |-> 0]
    /\ failCalls = 0
    /\ caught = 0

\* one message handled by the callback, for every template, payload and
\* processor
SpecRewrite == InitRewrite /\ [][Rewrite]_<<vars, x12vars>>

\* ------------------------------------------------------------------ claims
\* the table of legal (transition, source states) pairs and targets as stated
LegalFrom ==
    [analyze   |-> {"init"},
     enrich    |-> {"analyzed"},
     validate  |-> {"analyzed", "enriched"},
     translate |-> {"analyzed", "enriched", "validated"},
     transmit  |-> {"analyzed", "enriched", "validated", "translated"},
     complete  |-> {"analyzed", "enriched", "validated", "translated", "transmitted"},
     cancel    |-> NonTerminal,
     fail      |-> NonTerminal]

TargetOf ==
    [analyze |-> "analyzed", enrich |-> "enriched", validate |-> "validated",
     translate |-> "translated", transmit |-> "transmitted", complete |-> "completed",
     cancel |-> "cancelled", fail |-> "failed"]

\* a step in which a client calls transition t directly
Calls(t) == pc = "idle" /\ driver = "api" /\ call'.op = t

IsRejection(e) == e.type = "InvalidTransitionError"

\* C1: a call of a transition is rejected exactly when the (state, transition)
\* pair is outside the table; a call that returns leaves the processor in the
\* transition's target state; completed, cancelled and failed are never left.
C1_TransitionTable ==
    [][/\ \A t \in DOMAIN LegalFrom :
            Calls(t) =>
              /\ IsRejection(escaped') <=> proc.state \notin LegalFrom[t]
              /\ escaped' = NoExc => proc'.state = TargetOf[t]
       /\ proc.state \in states \ NonTerminal => proc'.state = proc.state]_vars

C1_Witness ==
    /\ proc.state = "completed"
    /\ call.op = "fail"
    /\ IsRejection(escaped)

\* C2: a call of a transition from a state outside its source states raises
\* InvalidTransition and leaves the processor (state, operation log, metrics
\* and all else) as it was, and returns nothing.
C2_IllegalCallChangesNothing ==
    [][\A t \in DOMAIN LegalFrom :
          (Calls(t) /\ proc.state \notin LegalFrom[t]) =>
              /\ escaped' = InvalidTransitionError(t, proc.state)
              /\ proc' = proc
              /\ result' = <<>>
              /\ pc' = "idle"]_vars

C2_Witness ==
    /\ call.op = "enrich"
    /\ escaped = InvalidTransitionError("enrich", "translated")
    /\ proc.state = "translated"
    /\ proc.metrics.analyzeTime = MaxElapsed

\* C3: the processor's metrics always have totalTime equal to the sum of the
\* five stage times.
C3_TotalIsSumOfStages == proc.metrics.totalTime = StageSum(proc.metrics)

StageOrder ==
    [analyze |-> 1, enrich |-> 2, validate |-> 3, translate |-> 4, transmit |-> 5]

\* C4: when a stage's work faults under run, run has entered its except
\* clause once and called fail once when it returns, no stage ran twice and
\* none after the faulting one, the result's errors are the reason and the
\* stringified fault, its log ends with FAIL and the state is failed.
C4_RunTurnsFaultIntoFail ==
    (driver = "run" /\ pc = "done" /\ ex.type = "Fault") =>
        /\ caught = 1
        /\ failCalls = 1
        /\ escaped = NoExc
        /\ \A s \in Stages :
              /\ stageRuns[s] <= 1
              /\ StageOrder[s] > StageOrder[ex.about[1]] => stageRuns[s] = 0
        /\ Len(result) = 1
        /\ result[1].errors = <<[msg |-> RunMsg], [msg |-> ExStr(ex)]>>
        /\ result[1].operations # <<>>
        /\ result[1].operations[Len(result[1].operations)] = "FAIL"
        /\ proc.state = "failed"

C4_Witness ==
    /\ driver = "run" /\ pc = "done"
    /\ ex = StageFault("transmit")
    /\ proc.state = "failed"
    /\ Len(result) = 1

\* C5: run never lets a fault out to its caller.
C5_NoFaultEscapesRun == driver = "run" => escaped = NoExc

\* C6 as stated: after fail was called, in whatever state, the call has not
\* raised, has returned a result carrying the reason, and the state is failed.
C6_FailNeverRaisesAnywhere ==
    (driver = "api" /\ pc = "idle" /\ call.op = "fail") =>
        /\ escaped = NoExc
        /\ Len(result) = 1
        /\ result[1].errors[1].msg = call.reason
        /\ proc.state = "failed"

\* C6 amended: fail called in a non-terminal state does not raise, returns a
\* result carrying the reason and, if a fault was given, the stringified
\* fault, and leaves the state failed; called in a terminal state it raises
\* InvalidTransition and the state stays as it was.
C6_FailFromNonTerminal ==
    [][Calls("fail") =>
          IF proc.state \in NonTerminal
          THEN /\ escaped' = NoExc
               /\ Len(result') = 1
               /\ \E i \in DOMAIN result'[1].errors :
                     result'[1].errors[i].msg = call'.reason
               /\ call'.exception # NoExc =>
                     \E i \in DOMAIN result'[1].errors :
                        result'[1].errors[i].msg = ExStr(call'.exception)
               /\ proc'.state = "failed"
          ELSE /\ IsRejection(escaped')
               /\ proc'.state = proc.state]_vars

C6_Witness ==
    /\ call.op = "fail" /\ call.exception # NoExc
    /\ escaped = NoExc
    /\ proc.state = "failed"
    /\ proc.operations = <<"FAIL">>

\* C7: fail(reason[, fault]) called in a non-terminal state with log L returns
\* a result whose log is L followed by FAIL and whose errors are the reason
\* first, then the stringified fault if one was given and nothing else; a
\* result returned by complete has no errors.
C7_FailResultLogAndErrors ==
    [][/\ (Calls("fail") /\ proc.state \in NonTerminal) =>
            /\ Len(result') = 1
            /\ result'[1].operations = Append(proc.operations, "FAIL")
            /\ result'[1].errors =
                  IF call'.exception = NoExc
                  THEN <<[msg |-> call'.reason]>>
                  ELSE <<[msg |-> call'.reason], [msg |-> ExStr(call'.exception)]>>
       /\ (Calls("complete") /\ escaped' = NoExc) =>
            /\ Len(result') = 1
            /\ result'[1].errors = <<>>]_vars

C7_Witness ==
    /\ call = [op |-> "fail", reason |-> <<"boom">>, exception |-> NoExc]
    /\ Len(result) = 1
    /\ result[1].operations = <<"ANALYZE", "ENRICH", "FAIL">>
    /\ result[1].errors = <<[msg |-> <<"boom">>]>>

\* C8: under run and process_edi the log holds COMPLETE and the state is
\* completed only with message_received set, the flow is past the wait loop
\* only with it set, and while it is unset and nothing has faulted the flow
\* has not ended and the state is not terminal.
C8_CompleteOnlyAfterResolved ==
    driver \in {"run", "cli"} =>
        /\ (\E i \in DOMAIN proc.operations : proc.operations[i] = "COMPLETE")
              => proc.message_received
        /\ proc.state = "completed" => proc.message_received
        /\ pc \in {"stop", "complete"} => proc.message_received
        /\ (~proc.message_received /\ ex = NoExc /\ escaped = NoExc) =>
              (pc # "done" /\ proc.state \in NonTerminal)

C8_Witness ==
    /\ driver = "cli" /\ pc = "done"
    /\ proc.state = "completed"
    /\ proc.message_received
    /\ proc.operations[Len(proc.operations)] = "COMPLETE"

\* C9: the callback given a message whose id differs from the processor's
\* transaction id changes nothing of the processor (message_received, state,
\* log, metrics, correlation fields) and produces no 271 text.
C9_OtherIdIgnored ==
    [][\A id \in MsgIds :
          (id # proc.transaction_id /\ DeliverMsg(id)) =>
              /\ proc' = proc
              /\ rewrites' = rewrites
              /\ cb' = "ignored"]_vars

C9_Witness ==
    /\ cb = "ignored"
    /\ proc.transaction_id \in TxIds
    /\ ~proc.message_received
    /\ rewrites = 0
    /\ pc = "sleep"

\* C10: the callback resolves once: over a whole run it produces at most one
\* 271 text.
C10_SingleResolution == rewrites <= 1

\* C11: the callback has no suspension point, so it runs as one step of the
\* event loop between two steps of the waiting flow; message_received is
\* written last in it. Hence the flag is only ever set by a callback step
\* that has produced the 271 text, it is set only with a text produced, and
\* the flow is past its wait loop only with a text produced.
C11_RewriteBeforeFlag ==
    [][/\ proc'.message_received # proc.message_received =>
            /\ \E id \in MsgIds : DeliverMsg(id)
            /\ cb' = "rewritten"
            /\ rewrites' = rewrites + 1
            /\ pc' = pc
       /\ proc'.message_received => rewrites' >= 1
       /\ pc' \in {"stop", "complete"} => rewrites' >= 1]_vars

C11_Witness ==
    /\ driver = "run" /\ pc = "complete"
    /\ proc.message_received
    /\ cb = "rewritten"
    /\ rewrites = 1

\* C12: when process_edi has ended, by completion or by a stage's fault, the
\* subscription it opened is closed.
C12_SubscriptionReleased == (driver = "cli" /\ pc = "done") => ~subscribed

IsPrefix(s, t) == Len(s) <= Len(t) /\ SubSeq(t, 1, Len(s)) = s

\* C16: whatever transition a client calls, legal, illegal or faulting, the
\* log before the call is a prefix of the log after it, and every entry the
\* call adds is the name of the transition that was called and not rejected.
C16_LogAppendOnly ==
    [][/\ IsPrefix(proc.operations, proc'.operations)
       /\ Len(proc'.operations) > Len(proc.operations) =>
            /\ call'.op \in DOMAIN EdiOperations
            /\ ~IsRejection(escaped')
            /\ \A i \in (Len(proc.operations) + 1)..Len(proc'.operations) :
                  proc'.operations[i] = EdiOperations[call'.op]]_vars

C16_Witness ==
    /\ proc.input_message.models = <<Txn("T1"), Bad>>
    /\ proc.operations = <<"ANALYZE", "TRANSLATE", "FAIL">>
    /\ call.op = "enrich"
    /\ IsRejection(escaped)

InLog(name) == \E i \in DOMAIN proc.operations : proc.operations[i] = name

\* C18: under run and process_edi the state is a stage's target state only
\* when the stage's name is in the log.
C18_StateAfterLog ==
    \A s \in Stages :
        proc.state = transitions[s].target => InLog(EdiOperations[s])

\* C19: a translate call of the eligibility check that returns has appended
\* TRANSLATE to the log exactly once, and no name is in the log twice.
C19_TranslateLoggedOnce ==
    [][/\ (Calls("translate") /\ escaped' = NoExc
             /\ proc.class = "EdiEligibilityCheckProcessor") =>
            proc'.operations = Append(proc.operations, "TRANSLATE")
       /\ \A i, j \in DOMAIN proc'.operations :
            proc'.operations[i] = proc'.operations[j] => i = j]_vars

\* the log of a run with flags f in which nothing faults
FlaggedLog(f) ==
    <<"ANALYZE">>
    \o (IF f.enrich THEN <<"ENRICH">> ELSE <<>>)
    \o (IF f.validate THEN <<"VALIDATE">> ELSE <<>>)
    \o (IF f.translate THEN <<"TRANSLATE">> ELSE <<>>)
    \o (IF f.transmit THEN <<"TRANSMIT">> ELSE <<>>)
    \o <<"COMPLETE">>

\* run's sequencing is legal and starts with analyze
C20_Sequencing ==
    driver = "run" =>
        /\ ~IsRejection(ex)
        /\ pc \notin {"analyze", "except"} => stageRuns["analyze"] = 1
        /\ pc = "analyze" => \A s \in Stages : stageRuns[s] = 0

\* C20: run started on a new processor, with any of the 16 flag settings,
\* meets no InvalidTransition, runs analyze first and, when it ends without
\* a fault, has returned a result whose log is ANALYZE, the flagged stages
\* in order, COMPLETE, with the state completed.
C20_RunLogExact ==
    /\ C20_Sequencing
    /\ (driver = "run" /\ pc = "done" /\ ex = NoExc) =>
          /\ Len(result) = 1
          /\ result[1].operations = FlaggedLog(flags)
          /\ proc.state = "completed"

\* C17: translate of an input of one transaction, called where it is legal,
\* raises nothing whoever the subscriber and the payer are; the request it
\* builds has the transaction id as id, the fixture patient and coverage
\* references exactly for the subscriber (DOE, JOHN, 11122333301) and the
\* fixture insurer reference exactly for the payer (UNIFIED INSURANCE CO,
\* 842610001), and no reference otherwise.
C17_IdentityLookup ==
    [][(Calls("translate") /\ proc.state \in LegalFrom["translate"]) =>
          LET m == proc.input_message.models[1]
              known == m.subscriber = <<"DOE", "JOHN", "11122333301">>
              payer == m.insurer = <<"UNIFIED INSURANCE CO", "842610001">>
              request == proc'.transmit_data
          IN /\ escaped' = NoExc
             /\ proc'.state = "translated"
             /\ request.id = m.tx
             /\ request.patient = IF known THEN "Patient/001" ELSE None
             /\ request.coverage = IF known THEN "Coverage/9876B1" ELSE None
             /\ request.insurer = IF payer THEN "Organization/001" ELSE None]_vars

C17_Witness ==
    /\ call.op = "translate" /\ escaped = NoExc
    /\ proc.state = "translated"
    /\ proc.subscriber_first = "JANE"
    /\ proc.transmit_data.id = "T2"
    /\ proc.transmit_data.patient = None
    /\ proc.transmit_data.coverage = None
    /\ proc.transmit_data.insurer = "Organization/001"

\* what a consumer of the reader gets: the elements of each segment yielded
Decoded ==
    [k \in 1 .. Len(reader.yielded) |->
        elements(reader.yielded[k], reader.element_separator)]

\* C13: a list of segments encoded with chosen delimiters behind an ISA
\* segment carrying them, and read to the end, gives after the ISA segment
\* the list again: as many segments, in order, with the same elements.
C13_RoundTrip ==
    (reader.status = "exhausted" /\ encoded.whole) => Tail(Decoded) = encoded.body

Count(str, c) == Cardinality({i \in DOMAIN str : str[i] = c})

\* C14: read to the end, a text of an ISA segment and n body segments has
\* given the reader the three delimiters at offsets 3, 82 and 105 of the
\* text, and after the ISA segment exactly the n body segments in order,
\* each of k element separators split into its k + 1 elements.
C14_HeaderOffsetsAndBody ==
    (reader.status = "exhausted" /\ encoded.whole) =>
        /\ reader.element_separator = reader.x12_input[4]
        /\ reader.repetition_separator = reader.x12_input[83]
        /\ reader.segment_terminator = reader.x12_input[106]
        /\ Len(reader.yielded) = 1 + Len(encoded.body)
        /\ \A k \in DOMAIN encoded.body :
              /\ Decoded[k + 1] = encoded.body[k]
              /\ Len(Decoded[k + 1])
                    = Count(reader.yielded[k + 1], encoded.delimiters.element) + 1

C21_SinglePost ==
    [][/\ stageRuns'["transmit"] <= 1
       /\ stageRuns'["transmit"] >= stageRuns["transmit"]
       /\ (pc' = "post" /\ pc # "post") <=>
             stageRuns'["transmit"] = stageRuns["transmit"] + 1]_vars

C21_Witness ==
    /\ stageRuns["transmit"] = 1
    /\ ~InLog("TRANSMIT")
    /\ proc.state = "transmitted"
    /\ call.op = "transmit"
    /\ IsRejection(escaped)

\* the runs of the reader's text between its terminators, the one before the
\* first and the one after the last included
Runs == split(reader.x12_input, reader.segment_terminator)

NonEmpty(list) == SelectSeq(list, LAMBDA x : x # <<>>)

\* list a is list b with some members left out
RECURSIVE IsSubseq(_, _)
IsSubseq(a, b) ==
    IF a = <<>> THEN TRUE
    ELSE IF b = <<>> THEN FALSE
    ELSE IF a[1] = b[1] THEN IsSubseq(Tail(a), Tail(b))
    ELSE IsSubseq(a, Tail(b))

\* C22: for every buffer size, what segments() has yielded holds no
\* terminator and is, in order, whole runs of the text between terminators;
\* read to the end, every run that is not empty was yielded exactly as it is.
C22_NoSegmentSplit ==
    reader.status \in {"open", "exhausted"} =>
        /\ \A k \in DOMAIN reader.yielded :
              \A i \in DOMAIN reader.yielded[k] :
                 reader.yielded[k][i] # reader.segment_terminator
        /\ IsSubseq(reader.yielded, Runs)
        /\ reader.status = "exhausted" => NonEmpty(reader.yielded) = NonEmpty(Runs)

C22_Witness ==
    /\ reader.status = "exhausted"
    /\ reader.buffer_size = 2
    /\ Len(reader.yielded) = 3
    /\ Len(reader.yielded[2]) = 5
    /\ Len(reader.yielded[3]) = 3

Front(list) == SubSeq(list, 1, Len(list) - 1)

\* C23: read to the end, a text that ends without a terminator has given
\* what follows its last terminator as the last segment, once; a text that
\* ends with a terminator has given no segment for the empty run behind it.
C23_PartialLastSegment ==
    LET text == reader.x12_input
        yielded == reader.yielded
    IN reader.status = "exhausted" =>
        IF text[Len(text)] = reader.segment_terminator
        THEN IsSubseq(yielded, Front(Runs))
        ELSE /\ yielded # <<>>
             /\ yielded[Len(yielded)] = Runs[Len(Runs)]
             /\ IsSubseq(Front(yielded), Front(Runs))

C23_Witness ==
    /\ reader.status = "exhausted"
    /\ reader.buffer_size = 1
    /\ encoded.rest = <<"C", "*", "A">>
    /\ Len(reader.yielded) = 3
    /\ reader.yielded[3] = <<"C", "*", "A">>

\* C24: what a reader has yielded when read to the end is what a reader of
\* the same text yields with any other buffer size.
C24_BufferSizeIndependent ==
    reader.status = "exhausted" =>
        \A size \in BufferSizes :
            ReadAll([reader EXCEPT !.buffer_size = size, !.status = "open",
                                   !.pos = 0, !.yielded = <<>>])
              = reader.yielded

\* the segments of the template file, as lists of elements: the ISA segment
\* and the body
TemplateSegments ==
    <<split(SubSeq(IsaSegment(encoded.delimiters), 1, isa_segment_terminator),
            encoded.delimiters.element)>> \o encoded.body

\* the segments of the rewritten text, as lists of elements, by the
\* template's delimiters
OutputSegments ==
    LET d == encoded.delimiters
        runs == split(output_message.text, d.terminator)
        segs == IF Len(runs) > 1 /\ runs[Len(runs)] = <<>> THEN Front(runs) ELSE runs
    IN [k \in DOMAIN segs |-> split(segs[k], d.element)]

\* a segment of the template with its target fields set
Expected(seg) ==
    LET nm1(who) == seg[1] = <<"N", "M", "1">> /\ Len(seg) >= 2 /\ seg[2] = who
    IN [j \in DOMAIN seg |->
          IF nm1(<<"I", "L">>) /\ j = 4 THEN <<proc.subscriber_last>>
          ELSE IF nm1(<<"I", "L">>) /\ j = 5 THEN <<proc.subscriber_first>>
          ELSE IF nm1(<<"I", "L">>) /\ j = 10 THEN <<proc.subscriber_id>>
          ELSE IF nm1(<<"P", "R">>) /\ j = 4 THEN <<proc.insurer_name>>
          ELSE IF nm1(<<"P", "R">>) /\ j = 10 THEN <<proc.insurer_id>>
          ELSE IF nm1(<<"1", "P">>) /\ j = 4 THEN <<proc.provider_name>>
          ELSE IF nm1(<<"1", "P">>) /\ j = 10 THEN <<proc.provider_id>>
          ELSE IF seg[1] = <<"T", "R", "N">> /\ j = 3 THEN <<proc.transaction_id>>
          ELSE IF seg[1] = <<"E", "B">> /\ j = 2
               THEN IF message.inforce THEN <<"1">> ELSE <<"6">>
          ELSE seg[j]]

\* C25: after a matching message has been handled, the rewritten text has
\* the template's segments in number and order, each with as many elements
\* as in the template, the target fields (subscriber in NM1 IL, payer in
\* NM1 PR, provider in NM1 1P, transaction id in TRN, code "1" or "6" in EB)
\* set and every other element as in the template.
C25_RewriteFrame ==
    cb = "rewritten" =>
        /\ Len(OutputSegments) = Len(TemplateSegments)
        /\ \A k \in DOMAIN TemplateSegments :
              OutputSegments[k] = Expected(TemplateSegments[k])

\* C26: the flag of the response (message_received) goes from unset to set
\* only in the delivery of a message whose id is the transaction id the
\* processor holds when that message is delivered; the delivery of a
\* message that is ignored changes nothing of the processor or the flow, so
\* nothing of it is left for a later step to act on.
C26_NoReplay ==
    [][/\ (proc'.message_received /\ ~proc.message_received) =>
             /\ message'.id = proc.transaction_id
             /\ Receive(message')
       /\ (message' # message \/ cb' # cb) => Receive(message')
       /\ (Receive(message') /\ cb' = "ignored") =>
             /\ message'.id # proc.transaction_id
             /\ UNCHANGED <<proc, subscribed, pc, driver, flags, ex, call, result,
                            escaped, rewrites, ghost>>]_<<vars, message>>

\* the transaction's own id was delivered to a subscribed processor before
\* run's translate had set it, was ignored, and run now waits unresolved
C26_Witness ==
    /\ cb = "ignored"
    /\ message.id = proc.transaction_id
    /\ proc.transaction_id # None
    /\ ~proc.message_received
    /\ pc = "sleep"
    /\ driver = "run"

====
